---- MODULE Spec2Model ----
(***************************************************************************)
(* A model of the stock research tool: the cached fetcher                  *)
(* (stock_tool/data_fetcher.py over stock_tool/database_manager.py), the   *)
(* valuation engine (stock_tool/intrinsic_value_calculator.py over the     *)
(* sector defaults of stock_tool/config_manager.py) and the analyzer       *)
(* (stock_tool/stock_analyzer.py).                                         *)
(*                                                                         *)
(* Conventions.  Python's None is the empty tuple <<>> and a present value *)
(* v is <<v>>.  Time is counted in whole days.  Rates are in percent       *)
(* (0.02 is 2), money amounts are integers, and a float division is the    *)
(* integer division \div: the valuation is computed in fixed point.        *)
(***************************************************************************)
EXTENDS Integers, Sequences, FiniteSets, TLC

VARIABLES
    now,        \* the wall clock, in days (datetime.now(timezone.utc))
    store,      \* the stock_data table: symbol -> <<>> or <<row>>
    sectors,    \* config["sectors"]: sector -> <<>> or <<params>>
    fetched,    \* the last fetch_data call and its outcome
    valued,     \* the last get_intrinsic_value call and its outcome
    analysed,   \* the last analyze_stocks call and its outcome
    config_file,      \* the "sectors" of the configuration file
    called,     \* the last call of another operation and its outcome
    random_seed,      \* config["random_seed"]: [mode, value, last_used]
    seed_file         \* the "random_seed" of the configuration file

vars == <<now, store, sectors, fetched, valued, analysed, config_file, called,
          random_seed, seed_file>>

----------------------------------------------------------------------------
(* Bounds of the model *)

MaxTime == 1
MaxBatch == 2

(* Optional values *)

None == <<>>
Some(v) == <<v>>
IsNone(x) == x = <<>>
Val(x) == x[1]

\* Body applied to the value of v, which is computed once
Bind(v, Body(_)) == CHOOSE r \in {Body(x) : x \in {v}} : TRUE

Symbols == {"AAPL", "ZDGE"}
Batches == UNION {[1..n -> Symbols] : n \in 1..MaxBatch}
DataFields == {"price", "shares", "fcf", "sector", "eps"}

\* the symbols the table can hold: those above and one that only the
\* screener brings in; Listing is the order the model reads the table in
Listed == Symbols \cup {"MSFT"}
Listing == <<"AAPL", "MSFT", "ZDGE">>

SeqRange(s) == {s[i] : i \in 1..Len(s)}

----------------------------------------------------------------------------
(* Python dicts keep insertion order: a dict is a sequence of entries,     *)
(* and assigning to a key that is present keeps its place.                 *)

DictHas(d, k) == \E i \in 1..Len(d) : d[i].ticker = k
DictGet(d, k) == d[CHOOSE i \in 1..Len(d) : d[i].ticker = k].data
DictPut(d, k, v) ==
    IF DictHas(d, k)
    THEN [i \in 1..Len(d) |-> IF d[i].ticker = k THEN [ticker |-> k, data |-> v] ELSE d[i]]
    ELSE Append(d, [ticker |-> k, data |-> v])
DictKeys(d) == {d[i].ticker : i \in 1..Len(d)}

----------------------------------------------------------------------------
(* DatabaseManager *)

NoRow == <<>>

\* mutant of save_stock_data: the row in conflict is deleted and the new
\* one is not inserted
save_stock_data_DeleteOnly(st, ticker, data, t) ==
    IF st[ticker] # NoRow THEN [st EXCEPT ![ticker] = NoRow]
    ELSE [st EXCEPT ![ticker] = Some([price |-> data.price, shares |-> data.shares,
                                      fcf |-> data.fcf, sector |-> data.sector,
                                      eps |-> data.eps, intrinsic_value |-> None,
                                      score |-> None, timestamp |-> t])]

\* mutant of save_stock_data: an upsert that keeps the derived columns of
\* the row in conflict
save_stock_data_KeepDerived(st, ticker, data, t) ==
    [st EXCEPT ![ticker] =
        Some([price |-> data.price, shares |-> data.shares, fcf |-> data.fcf,
              sector |-> data.sector, eps |-> data.eps,
              intrinsic_value |-> IF st[ticker] = NoRow THEN None
                                  ELSE Val(st[ticker]).intrinsic_value,
              score |-> IF st[ticker] = NoRow THEN None ELSE Val(st[ticker]).score,
              timestamp |-> t])]

\* INSERT OR REPLACE of the five fundamentals and a new timestamp: the
\* columns the statement does not name (intrinsic_value, score) become NULL.
save_stock_data(st, ticker, data, t) ==
    [st EXCEPT ![ticker] = Some([price |-> data.price,
                                 shares |-> data.shares,
                                 fcf |-> data.fcf,
                                 sector |-> data.sector,
                                 eps |-> data.eps,
                                 intrinsic_value |-> None,
                                 score |-> None,
                                 timestamp |-> t])]

\* SELECT * WHERE ticker = ?: the row as a dict, or None
get_cached_data(st, ticker) == st[ticker]

\* UPDATE ... SET intrinsic_value = ?, timestamp = ? WHERE ticker = ?
save_intrinsic_value(st, ticker, value, t) ==
    IF st[ticker] = NoRow THEN st
    ELSE [st EXCEPT ![ticker] = Some([Val(st[ticker]) EXCEPT !.intrinsic_value = value,
                                                             !.timestamp = t])]

\* mutant of save_score: the other derived column is reset
save_score_ClearsValue(st, ticker, score, t) ==
    IF st[ticker] = NoRow THEN st
    ELSE [st EXCEPT ![ticker] = Some([Val(st[ticker]) EXCEPT !.score = score,
                                                             !.intrinsic_value = None,
                                                             !.timestamp = t])]

\* UPDATE ... SET score = ?, timestamp = ? WHERE ticker = ?
save_score(st, ticker, score, t) ==
    IF st[ticker] = NoRow THEN st
    ELSE [st EXCEPT ![ticker] = Some([Val(st[ticker]) EXCEPT !.score = score,
                                                             !.timestamp = t])]

\* query_data(sectors=...): SELECT * WHERE sector IN (...), the rows as
\* dicts of the table's columns with their ticker; a NULL sector matches none
query_data(st, sector_list) ==
    SelectSeq([i \in 1..Len(Listing) |->
                  [ticker |-> Listing[i], row |-> st[Listing[i]]]],
              LAMBDA r : /\ r.row # NoRow
                         /\ Val(r.row).sector # None
                         /\ Val(Val(r.row).sector) \in SeqRange(sector_list))

\* mutant of clear_outdated_data: the record exactly days old is deleted too
clear_outdated_data_Inclusive(st, t, days) ==
    [s \in DOMAIN st |->
        IF st[s] # NoRow /\ Val(st[s]).timestamp <= t - days THEN NoRow ELSE st[s]]

\* clear_outdated_data(days): DELETE WHERE timestamp < now - days
clear_outdated_data(st, t, days) ==
    [s \in DOMAIN st |->
        IF st[s] # NoRow /\ Val(st[s]).timestamp < t - days THEN NoRow ELSE st[s]]

----------------------------------------------------------------------------
(* DataFetcher *)

cache_duration_days == 1

\* mutants of is_cache_valid: the operands of the subtraction swapped, and
\* the boundary made inclusive
is_cache_valid_Swapped(timestamp, t) == timestamp - t < 0
is_cache_valid_Inclusive(timestamp, t) == t - timestamp <= cache_duration_days

\* now - timestamp < cache_duration
is_cache_valid(timestamp, t) == t - timestamp < cache_duration_days

\* mutant of validate_data: any() for all()
validate_data_Any(data, required_fields) ==
    \E f \in required_fields : f \in DOMAIN data /\ ~IsNone(data[f])

\* mutant of validate_data: a field that is present with a None value passes
validate_data_KeyOnly(data, required_fields) ==
    \A f \in required_fields : f \in DOMAIN data

\* all(field in data and data[field] is not None for field in required_fields)
validate_data(data, required_fields) ==
    \A f \in required_fields : f \in DOMAIN data /\ ~IsNone(data[f])

\* mutant of CacheHit: the age of the record is not looked at
CacheHit_AnyAge(cached_data, required_fields, t) ==
    /\ ~IsNone(cached_data)
    /\ \A f \in required_fields : ~IsNone(Val(cached_data)[f])

\* the condition of fetch_data's cache branch
CacheHit(cached_data, required_fields, t) ==
    /\ ~IsNone(cached_data)
    /\ \A f \in required_fields : ~IsNone(Val(cached_data)[f])
    /\ is_cache_valid(Val(cached_data).timestamp, t)

\* the record fetch_data builds from a cached row
CachedRecord(row) ==
    [price |-> row.price, shares |-> row.shares, fcf |-> row.fcf,
     sector |-> row.sector, eps |-> row.eps]

----------------------------------------------------------------------------
(* The remote data source.  One HTTP exchange is a record [kind, obj]:     *)
(*   conn_error  requests.get raises (a network error)                     *)
(*   http_error  an error status: raise_for_status raises                  *)
(*   empty       the JSON body []                                          *)
(*   list        the JSON body [obj], obj an object with some keys         *)
(*   dict        a JSON object instead of a list, e.g. {"Error Message":..}*)
(*   null_item   a JSON list whose first item is no object, e.g. [null]    *)

Resp(kind, obj) == [kind |-> kind, obj |-> obj]
NoObj == [symbol |-> "-"]

\* requests.get(...); raise_for_status(); data = json();
\* data[0][key] if data and key in data[0] else None
Lookup(resp, key) ==
    CASE resp.kind = "conn_error" -> [exc |-> "RequestException", val |-> None]
      [] resp.kind = "http_error" -> [exc |-> "RequestException", val |-> None]
      [] resp.kind = "empty"      -> [exc |-> "none", val |-> None]
      [] resp.kind = "dict"       -> [exc |-> "KeyError", val |-> None]
      [] resp.kind = "null_item"  -> [exc |-> "TypeError", val |-> None]
      [] resp.kind = "list"       ->
            [exc |-> "none",
             val |-> IF key \in DOMAIN resp.obj THEN Some(resp.obj[key]) ELSE None]

\* the exceptions fetch_from_api catches per ticker
Caught == {"RequestException", "IndexError", "KeyError"}

\* the body of fetch_from_api's try block for one ticker: the four lookups
\* in order, the first exception ending it
FetchTicker(r) ==
    LET price  == Lookup(r.quote, "price")
        shares == Lookup(r.profile, "sharesOutstanding")
        sector == Lookup(r.profile, "sector")
        fcf    == Lookup(r.cashflow, "freeCashFlow")
        eps    == Lookup(r.income, "eps")
        steps  == <<price, shares, sector, fcf, eps>>
        failed == {i \in 1..5 : steps[i].exc # "none"}
        first  == CHOOSE i \in failed : \A j \in failed : i <= j
    IN  IF failed = {}
        THEN [exc |-> "none",
              data |-> Some([price |-> price.val, shares |-> shares.val,
                             fcf |-> fcf.val, sector |-> sector.val,
                             eps |-> eps.val])]
        ELSE [exc |-> steps[first].exc, data |-> None]

\* fetch_from_api: the loop over the tickers; acc is [exc, result, requested],
\* requested the tickers a lookup was issued for.  An exception that is not
\* caught leaves the loop and the function.
RECURSIVE fetch_from_api_loop(_, _, _, _)
fetch_from_api_loop(tickers, api, i, acc) ==
    IF i > Len(tickers) THEN acc
    ELSE LET ticker == tickers[i]
             one == FetchTicker(api[ticker])
             req == Append(acc.requested, ticker)
         IN  IF one.exc = "none"
             THEN fetch_from_api_loop(tickers, api, i + 1,
                      [acc EXCEPT !.result = DictPut(acc.result, ticker, Val(one.data)),
                                  !.requested = req])
             ELSE IF one.exc \in Caught
             THEN fetch_from_api_loop(tickers, api, i + 1, [acc EXCEPT !.requested = req])
             ELSE [acc EXCEPT !.exc = one.exc, !.requested = req]

fetch_from_api(tickers, api) ==
    fetch_from_api_loop(tickers, api, 1,
                        [exc |-> "none", result |-> <<>>, requested |-> <<>>])

\* fetch_data's first loop: acc is [result, to_fetch]
RECURSIVE CacheLoop(_, _, _, _, _, _)
CacheLoop(st, t, tickers, required_fields, i, acc) ==
    IF i > Len(tickers) THEN acc
    ELSE LET ticker == tickers[i]
             cached_data == get_cached_data(st, ticker)
         IN  IF CacheHit(cached_data, required_fields, t)
             THEN CacheLoop(st, t, tickers, required_fields, i + 1,
                      [acc EXCEPT !.result =
                          DictPut(acc.result, ticker, CachedRecord(Val(cached_data)))])
             ELSE CacheLoop(st, t, tickers, required_fields, i + 1,
                      [acc EXCEPT !.to_fetch = Append(acc.to_fetch, ticker)])

\* mutant of KeepValid: the ticker is added to the result, then the row written
KeepValid_ResultFirst(acc, ticker, data, t) ==
    LET added == [acc EXCEPT !.result = DictPut(acc.result, ticker, data),
                             !.log = Append(acc.log, <<"result", ticker>>)]
    IN  [added EXCEPT !.store = save_stock_data(added.store, ticker, data, t),
                      !.log = Append(added.log, <<"save", ticker>>)]

\* one pass of fetch_data's second loop on a valid ticker: the row is
\* written, then the ticker is added to the result
KeepValid(acc, ticker, data, t) ==
    LET saved == [acc EXCEPT !.store = save_stock_data(acc.store, ticker, data, t),
                             !.log = Append(acc.log, <<"save", ticker>>)]
    IN  [saved EXCEPT !.result = DictPut(saved.result, ticker, data),
                      !.log = Append(saved.log, <<"result", ticker>>)]

\* fetch_data's second loop, over api_data.items(); acc is [store, result, log]
RECURSIVE SaveLoop(_, _, _, _, _)
SaveLoop(api_data, required_fields, t, i, acc) ==
    IF i > Len(api_data) THEN acc
    ELSE LET ticker == api_data[i].ticker
             data == api_data[i].data
         IN  IF validate_data(data, required_fields)
             THEN SaveLoop(api_data, required_fields, t, i + 1, KeepValid(acc, ticker, data, t))
             ELSE SaveLoop(api_data, required_fields, t, i + 1,
                      [acc EXCEPT !.log = Append(acc.log, <<"missing", ticker>>)])

\* mutant of fetch_data: a record served from the cache is written back
fetch_data_ResaveHits(st, t, tickers, required_fields, use_cache, api) ==
    LET first == IF use_cache
                 THEN CacheLoop(st, t, tickers, required_fields, 1,
                                [result |-> <<>>, to_fetch |-> <<>>])
                 ELSE [result |-> <<>>, to_fetch |-> tickers]
        remote == IF first.to_fetch # <<>>
                  THEN fetch_from_api(first.to_fetch, api)
                  ELSE [exc |-> "none", result |-> <<>>, requested |-> <<>>]
        resaved == [s \in DOMAIN st |->
                       IF DictHas(first.result, s)
                       THEN save_stock_data(st, s, DictGet(first.result, s), t)[s]
                       ELSE st[s]]
        second == SaveLoop(remote.result, required_fields, t, 1,
                           [store |-> resaved, result |-> first.result, log |-> <<>>])
    IN  IF remote.exc # "none"
        THEN [exc |-> remote.exc, result |-> <<>>, store |-> resaved,
              to_fetch |-> first.to_fetch, requested |-> remote.requested, log |-> <<>>]
        ELSE [exc |-> "none", result |-> second.result, store |-> second.store,
              to_fetch |-> first.to_fetch, requested |-> remote.requested,
              log |-> second.log]

\* fetch_data(tickers, required_fields, use_cache) on store st at time t
\* against the remote answers api: [exc, result, store, to_fetch, requested, log]
fetch_data(st, t, tickers, required_fields, use_cache, api) ==
    LET first == IF use_cache
                 THEN CacheLoop(st, t, tickers, required_fields, 1,
                                [result |-> <<>>, to_fetch |-> <<>>])
                 ELSE [result |-> <<>>, to_fetch |-> tickers]
        remote == IF first.to_fetch # <<>>
                  THEN fetch_from_api(first.to_fetch, api)
                  ELSE [exc |-> "none", result |-> <<>>, requested |-> <<>>]
        second == SaveLoop(remote.result, required_fields, t, 1,
                           [store |-> st, result |-> first.result, log |-> <<>>])
    IN  IF remote.exc # "none"
        THEN [exc |-> remote.exc, result |-> <<>>, store |-> st,
              to_fetch |-> first.to_fetch, requested |-> remote.requested, log |-> <<>>]
        ELSE [exc |-> "none", result |-> second.result, store |-> second.store,
              to_fetch |-> first.to_fetch, requested |-> remote.requested,
              log |-> second.log]

----------------------------------------------------------------------------
(* The answers the remote source gives for one ticker in the fetcher's     *)
(* specification: the four exchanges of one fetch_from_api pass.           *)

Answers(price, shares, sector, fcf, eps) ==
    [quote    |-> Resp("list", [symbol |-> "-", price |-> price]),
     profile  |-> Resp("list", [symbol |-> "-", sharesOutstanding |-> shares,
                                sector |-> sector]),
     cashflow |-> Resp("list", [symbol |-> "-", freeCashFlow |-> fcf]),
     income   |-> Resp("list", [symbol |-> "-", eps |-> eps])]

Complete1 == Answers(10, 10, "Technology", 1000, 5)
Complete2 == Answers(20, 10, "Technology", 1000, 5)
\* the cash-flow statement has no freeCashFlow key (tests/test_data_fetcher.py:142)
NoFcf == [Complete1 EXCEPT !.cashflow = Resp("list", NoObj)]
\* the profile is the empty list
EmptyProfile == [Complete1 EXCEPT !.profile = Resp("empty", NoObj)]
\* the quote answers 404 (tests/test_data_fetcher.py:161)
QuoteHttpError == [Complete1 EXCEPT !.quote = Resp("http_error", NoObj)]
\* the connection drops at the third request
CashflowConnError == [Complete1 EXCEPT !.cashflow = Resp("conn_error", NoObj)]
\* the income statement is a JSON object, not a list
IncomeDict == [Complete1 EXCEPT !.income = Resp("dict", NoObj)]
\* the quote is the JSON body [null]
QuoteNullItem == [Complete1 EXCEPT !.quote = Resp("null_item", NoObj)]

ApiCases == {Complete1, Complete2, NoFcf, EmptyProfile, QuoteHttpError,
             CashflowConnError, IncomeDict, QuoteNullItem}

\* required_fields: the default of fetch_data and a narrower list
DefaultRequired == {"price", "shares", "fcf"}
RequiredFieldSets == {DefaultRequired, {"price"}}

----------------------------------------------------------------------------
(* ConfigManager: the sector defaults.  A sector's entry is <<>> (no entry) *)
(* or <<[growth_rate, pe_ratio, discount_rate]>>, each parameter optional.  *)

SectorNames == {"Technology", "Crypto"}
NoParams == [growth_rate |-> None, pe_ratio |-> None, discount_rate |-> None]

\* default_config["sectors"], of which the model keeps Technology; Crypto is
\* a sector the default configuration does not know
DefaultSectors ==
    [s \in SectorNames |->
        IF s = "Technology"
        THEN Some([growth_rate |-> Some(8), pe_ratio |-> Some(25), discount_rate |-> Some(10)])
        ELSE None]

\* self.config["sectors"].get(sector, {})
get_sector_params(cfg, sector) ==
    IF sector \in DOMAIN cfg /\ ~IsNone(cfg[sector]) THEN Val(cfg[sector]) ELSE NoParams

\* set_sector_params: the entry is created, then each parameter given is
\* checked and assigned in turn; a ValueError leaves what was assigned so far.
\* [exc, sectors]
set_sector_params(cfg, sector, growth_rate, pe_ratio, discount_rate) ==
    LET c0 == IF IsNone(cfg[sector]) THEN [cfg EXCEPT ![sector] = Some(NoParams)] ELSE cfg
        p0 == Val(c0[sector])
        badG == ~IsNone(growth_rate) /\ ~(0 <= Val(growth_rate) /\ Val(growth_rate) <= 100)
        p1 == IF IsNone(growth_rate) THEN p0 ELSE [p0 EXCEPT !.growth_rate = growth_rate]
        badP == ~IsNone(pe_ratio) /\ Val(pe_ratio) <= 0
        p2 == IF IsNone(pe_ratio) THEN p1 ELSE [p1 EXCEPT !.pe_ratio = pe_ratio]
        badD == ~IsNone(discount_rate) /\ ~(0 <= Val(discount_rate) /\ Val(discount_rate) <= 100)
        p3 == IF IsNone(discount_rate) THEN p2 ELSE [p2 EXCEPT !.discount_rate = discount_rate]
    IN  IF badG THEN [exc |-> "ValueError", sectors |-> c0]
        ELSE IF badP THEN [exc |-> "ValueError", sectors |-> [c0 EXCEPT ![sector] = Some(p1)]]
        ELSE IF badD THEN [exc |-> "ValueError", sectors |-> [c0 EXCEPT ![sector] = Some(p2)]]
        ELSE [exc |-> "none", sectors |-> [c0 EXCEPT ![sector] = Some(p3)]]

\* default_config["random_seed"]
DefaultRandomSeed == [mode |-> "generate", value |-> None, last_used |-> None]

\* random.randint(0, 1000000) draws from 0..MaxSeed
MaxSeed == 2
GeneratedSeeds == 0..MaxSeed

\* _generate_and_save_seed with the seed randint drew: [seed, random_seed]
generate_and_save_seed(rs, drawn) ==
    [seed |-> drawn, random_seed |-> [rs EXCEPT !.last_used = Some(drawn)]]

\* Python's "x or y" on an optional integer: None and 0 are falsy
Falsy(x) == IsNone(x) \/ Val(x) = 0

\* get_random_seed with the seed randint would draw:
\* [exc, seed, random_seed, generated]
get_random_seed(rs, drawn) ==
    IF rs.mode = "reuse" /\ ~Falsy(rs.last_used)
    THEN [exc |-> "none", seed |-> rs.last_used, random_seed |-> rs, generated |-> FALSE]
    ELSE IF rs.mode = "specify"
    THEN IF IsNone(rs.value)
         THEN [exc |-> "ValueError", seed |-> None, random_seed |-> rs, generated |-> FALSE]
         ELSE [exc |-> "none", seed |-> rs.value, random_seed |-> rs, generated |-> FALSE]
    ELSE \* generate, and reuse with a falsy last_used
         [exc |-> "none", seed |-> Some(generate_and_save_seed(rs, drawn).seed),
          random_seed |-> generate_and_save_seed(rs, drawn).random_seed,
          generated |-> TRUE]

\* set_random_seed_mode: the mode is assigned before the value is checked:
\* [exc, random_seed]
set_random_seed_mode(rs, mode, value) ==
    IF mode \notin {"reuse", "generate", "specify"}
    THEN [exc |-> "ValueError", random_seed |-> rs]
    ELSE IF mode = "specify" /\ IsNone(value)
    THEN [exc |-> "ValueError", random_seed |-> [rs EXCEPT !.mode = mode]]
    ELSE IF mode = "specify"
    THEN [exc |-> "none", random_seed |-> [rs EXCEPT !.mode = mode, !.value = value]]
    ELSE [exc |-> "none", random_seed |-> [rs EXCEPT !.mode = mode]]

----------------------------------------------------------------------------
(* IntrinsicValueCalculator, in fixed point: rates in percent, 1 + r is    *)
(* (100 + r) / 100, amounts are integers and / is \div.                    *)

years == 10
terminal_growth == 2
FallbackGrowth == 5
FallbackDiscount == 10
FallbackPe == 15

RECURSIVE SumSeq(_)
SumSeq(q) == IF q = <<>> THEN 0 ELSE Head(q) + SumSeq(Tail(q))

\* cf * (1 + rate) ** n
RECURSIVE Grow(_, _, _)
Grow(cf, rate, n) ==
    IF n = 0 THEN cf ELSE Grow((cf * (100 + rate)) \div 100, rate, n - 1)

\* cf / (1 + rate) ** n
RECURSIVE Discount(_, _, _)
Discount(cf, rate, n) ==
    IF n = 0 THEN cf ELSE Discount((cf * 100) \div (100 + rate), rate, n - 1)

\* calculate_dcf(fcf, growth_rate, discount_rate): [exc, val].  The terminal
\* value divides by discount_rate - terminal_growth without a check.
calculate_dcf(fcf, growth_rate, discount_rate) ==
    LET future_cash_flows == [t \in 1..years |-> Grow(fcf, growth_rate, t)]
        terminal_value == (future_cash_flows[years] * (100 + terminal_growth))
                              \div (discount_rate - terminal_growth)
        discounted_cf == [t \in 1..years |-> Discount(future_cash_flows[t], discount_rate, t)]
    IN  IF discount_rate - terminal_growth = 0
        THEN [exc |-> "ZeroDivisionError", val |-> 0]
        ELSE [exc |-> "none",
              val |-> SumSeq(discounted_cf) + Discount(terminal_value, discount_rate, years)]

\* Python truthiness of an optional number: not None and not 0
Truthy(x) == ~IsNone(x) /\ Val(x) # 0

OrElse(x, default) == IF IsNone(x) THEN default ELSE Val(x)

\* mutant of Blend: the sum is divided by three whatever is missing
Blend_ByThree(subs) ==
    LET values == SelectSeq(subs, LAMBDA v : ~IsNone(v))
    IN  IF values = <<>> THEN None
        ELSE Some(SumSeq([i \in 1..Len(values) |-> Val(values[i])]) \div 3)

\* values = [v for v in [...] if v is not None];
\* sum(values) / len(values) if values else None
Blend(subs) ==
    LET values == SelectSeq(subs, LAMBDA v : ~IsNone(v))
    IN  IF values = <<>> THEN None
        ELSE Some(SumSeq([i \in 1..Len(values) |-> Val(values[i])]) \div Len(values))

\* get_intrinsic_value(stock_data) under the sector defaults cfg:
\* [exc, dcf_per_share, peg_intrinsic, fmp_dcf, value]
get_intrinsic_value(stock_data, cfg) ==
    LET sector_defaults == IF IsNone(stock_data.sector) THEN NoParams
                           ELSE get_sector_params(cfg, Val(stock_data.sector))
        shares == stock_data.shares
        fcf == stock_data.fcf
        eps == stock_data.eps
        growth_rate == OrElse(stock_data.growth_rate,
                              OrElse(sector_defaults.growth_rate, FallbackGrowth))
        discount_rate == OrElse(sector_defaults.discount_rate, FallbackDiscount)
        sector_pe == OrElse(sector_defaults.pe_ratio, FallbackPe)
        fmp_dcf == stock_data.fmp_dcf
        wantDcf == Truthy(fcf) /\ Val(shares) > 0
        dcf_total == calculate_dcf(Val(fcf), growth_rate, discount_rate)
        dcf_per_share == IF wantDcf THEN Some(dcf_total.val \div Val(shares)) ELSE None
        sector_growth == OrElse(sector_defaults.growth_rate, growth_rate)
        fair_pe == IF sector_growth > 0
                   THEN (sector_pe * growth_rate) \div sector_growth
                   ELSE sector_pe
        peg_intrinsic == IF Truthy(eps) /\ Val(eps) > 0 /\ growth_rate > 0
                         THEN Some(fair_pe * Val(eps)) ELSE None
        failed(e) == [exc |-> e, dcf_per_share |-> None, peg_intrinsic |-> None,
                      fmp_dcf |-> fmp_dcf, value |-> None]
    IN  IF Truthy(fcf) /\ IsNone(shares) THEN failed("TypeError")
        ELSE IF wantDcf /\ dcf_total.exc # "none" THEN failed(dcf_total.exc)
        ELSE [exc |-> "none", dcf_per_share |-> dcf_per_share,
              peg_intrinsic |-> peg_intrinsic, fmp_dcf |-> fmp_dcf,
              value |-> Blend(<<dcf_per_share, peg_intrinsic, fmp_dcf>>)]

----------------------------------------------------------------------------
(* StockAnalyzer.  A derived P/E is the exact ratio <<price, eps>> (eps > 0) *)
(* or NegInf, float('-inf').  A score is kept in percent.                    *)

AMEX_TICKERS == {"ZDGE", "SGE", "WTT", "LGL"}

NegInf == <<>>

\* mutant of PeGreater: the sentinel compares above every bound
PeGreater_SentinelAbove(pe, bound) == pe = NegInf \/ pe[1] > bound * pe[2]

\* pe_ratio > bound
PeGreater(pe, bound) == pe # NegInf /\ pe[1] > bound * pe[2]

\* pe_ratio <= 0
PeNotPositive(pe) == pe = NegInf \/ pe[1] <= 0

\* the first loop of analyze_stocks on one item of stock_data; data['eps']
\* is always a key of what fetch_data returns, so get('eps', 0) is its value
\* and a None there cannot be compared with 0
WithPe(ticker, data) ==
    IF IsNone(data.eps) THEN [exc |-> "TypeError", stock |-> None]
    ELSE [exc |-> "none",
          stock |-> Some([ticker |-> ticker, price |-> data.price, shares |-> data.shares,
                          fcf |-> data.fcf, sector |-> data.sector, eps |-> data.eps,
                          pe_ratio |-> IF Val(data.eps) > 0
                                       THEN <<Val(data.price), Val(data.eps)>>
                                       ELSE NegInf])]

\* what get_intrinsic_value reads of a stock of the analyzer: fetch_data
\* gives neither a growth_rate nor an fmp_dcf key
ValuationInput(stock) ==
    [price |-> stock.price, shares |-> stock.shares, fcf |-> stock.fcf,
     eps |-> stock.eps, sector |-> stock.sector, growth_rate |-> None, fmp_dcf |-> None]

\* mutants of passes_filters: the sign of the intrinsic value is not checked;
\* the allow-list test is joined by "or"
passes_filters_NoSignCheck(stock, filter_params) ==
    /\ ~IsNone(stock.intrinsic_value)
    /\ ~(filter_params.exclude_negative_pe
           /\ stock.ticker \notin AMEX_TICKERS /\ PeNotPositive(stock.pe_ratio))
    /\ ~(~IsNone(filter_params.max_pe)
           /\ PeGreater(stock.pe_ratio, Val(filter_params.max_pe)))
passes_filters_OrAllowList(stock, filter_params) ==
    /\ ~(IsNone(stock.intrinsic_value) \/ Val(stock.intrinsic_value) <= 0)
    /\ ~(filter_params.exclude_negative_pe
           /\ (stock.ticker \notin AMEX_TICKERS \/ PeNotPositive(stock.pe_ratio)))
    /\ ~(~IsNone(filter_params.max_pe)
           /\ PeGreater(stock.pe_ratio, Val(filter_params.max_pe)))

\* passes_filters(stock, filter_params); filter_params is
\* [exclude_negative_pe, max_pe], max_pe <<>> when the key is absent
passes_filters(stock, filter_params) ==
    /\ ~(IsNone(stock.intrinsic_value) \/ Val(stock.intrinsic_value) <= 0)
    /\ ~(filter_params.exclude_negative_pe
           /\ stock.ticker \notin AMEX_TICKERS /\ PeNotPositive(stock.pe_ratio))
    /\ ~(~IsNone(filter_params.max_pe)
           /\ PeGreater(stock.pe_ratio, Val(filter_params.max_pe)))

\* mutant of Score: the price is divided by the intrinsic value
Score_PriceOverValue(stock) ==
    IF Val(stock.price) > 0
    THEN (Val(stock.price) * 100) \div Val(stock.intrinsic_value)
    ELSE 0

\* score = intrinsic_value / price if price > 0 else 0, in percent
Score(stock) ==
    IF Val(stock.price) > 0
    THEN (Val(stock.intrinsic_value) * 100) \div Val(stock.price)
    ELSE 0

OutputRow(stock) ==
    [ticker |-> stock.ticker, score |-> Score(stock),
     intrinsic_value |-> stock.intrinsic_value, price |-> stock.price,
     sector |-> stock.sector]

\* mutant of SortedPlace: among equal scores the later row comes first
SortedPlace_TiesReversed(rows, i) ==
    1 + Cardinality({j \in 1..Len(rows) : rows[j].score > rows[i].score})
      + Cardinality({j \in (i + 1)..Len(rows) : rows[j].score = rows[i].score})

\* sorted(rows, key=score, reverse=True) is stable: a row comes after the
\* rows that score more and after the earlier rows that score the same
SortedPlace(rows, i) ==
    1 + Cardinality({j \in 1..Len(rows) : rows[j].score > rows[i].score})
      + Cardinality({j \in 1..(i - 1) : rows[j].score = rows[i].score})

SortedDesc(rows) ==
    [k \in 1..Len(rows) |-> rows[CHOOSE i \in 1..Len(rows) : SortedPlace(rows, i) = k]]

\* the keys of {sector: [] for sector in sector_prefs}, in order
RECURSIVE GroupKeys(_, _, _)
GroupKeys(prefs, i, acc) ==
    IF i > Len(prefs) THEN acc
    ELSE GroupKeys(prefs, i + 1,
                   IF prefs[i] \in SeqRange(acc) THEN acc ELSE Append(acc, prefs[i]))

\* the last step of analyze_stocks: "if sector_prefs:" is false for None
\* and for the empty list
Ranked(output_stocks, sector_prefs) ==
    IF IsNone(sector_prefs) \/ Val(sector_prefs) = <<>>
    THEN [grouped |-> FALSE, rows |-> SortedDesc(output_stocks), groups |-> <<>>]
    ELSE Bind(GroupKeys(Val(sector_prefs), 1, <<>>), LAMBDA keys :
           [grouped |-> TRUE, rows |-> <<>>,
            groups |-> [k \in 1..Len(keys) |->
                          [sector |-> keys[k],
                           rows |-> Bind(SelectSeq(output_stocks,
                                                   LAMBDA r : r.sector = Some(keys[k])),
                                         LAMBDA mine : SortedDesc(mine))]]])

NoOut == [grouped |-> FALSE, rows |-> <<>>, groups |-> <<>>]

\* analyze_stocks leaves with an exception after fetch_data has run
Raised(f, e) ==
    [exc |-> e, store |-> f.store, fetched |-> f.result, stocks |-> <<>>, out |-> NoOut]

\* the second loop of analyze_stocks on one stock
WithValue(stock, cfg) ==
    Bind(get_intrinsic_value(ValuationInput(stock), cfg), LAMBDA v :
        [exc |-> v.exc,
         stock |-> [ticker |-> stock.ticker, price |-> stock.price,
                    shares |-> stock.shares, fcf |-> stock.fcf,
                    sector |-> stock.sector, eps |-> stock.eps,
                    pe_ratio |-> stock.pe_ratio, intrinsic_value |-> v.value]])

FirstRaised(steps) ==
    steps[CHOOSE i \in 1..Len(steps) :
              steps[i].exc # "none" /\ \A j \in 1..(i - 1) : steps[j].exc = "none"].exc

\* analyze_stocks from the filter on: filter, score, output, rank
FilterAndRank(f, stock_list, filter_params, sector_prefs) ==
    Bind(SelectSeq(stock_list, LAMBDA x : passes_filters(x, filter_params)),
         LAMBDA filtered_stocks :
    Bind([i \in 1..Len(filtered_stocks) |-> OutputRow(filtered_stocks[i])] \o <<>>,
         LAMBDA output_stocks :
        [exc |-> "none", store |-> f.store, fetched |-> f.result, stocks |-> stock_list,
         out |-> Ranked(output_stocks, sector_prefs)]))

\* analyze_stocks(tickers, filter_params, sector_prefs) on store st at time
\* t, against the remote answers api and the sector defaults cfg:
\* [exc, store, fetched, stocks, out], fetched being what fetch_data returned
analyze_stocks(st, t, tickers, filter_params, sector_prefs, api, cfg) ==
    Bind(fetch_data(st, t, tickers, DefaultRequired, TRUE, api), LAMBDA f :
      IF f.exc # "none" THEN Raised(f, f.exc)
      ELSE
        Bind([i \in 1..Len(f.result) |->
                 WithPe(f.result[i].ticker, f.result[i].data)] \o <<>>, LAMBDA pes :
          IF \E i \in 1..Len(pes) : pes[i].exc # "none" THEN Raised(f, FirstRaised(pes))
          ELSE
            Bind([i \in 1..Len(pes) |-> WithValue(Val(pes[i].stock), cfg)] \o <<>>,
                 LAMBDA ivs :
              IF \E i \in 1..Len(ivs) : ivs[i].exc # "none" THEN Raised(f, FirstRaised(ivs))
              ELSE FilterAndRank(f, [i \in 1..Len(ivs) |-> ivs[i].stock] \o <<>>,
                                 filter_params, sector_prefs))))

----------------------------------------------------------------------------
(* TickerSelector.  The generator of the random module is a number rng;    *)
(* the draw number pos (from 0) below k is a digit of rng.  A screener     *)
(* entry is [symbol, sector, exchange].                                    *)

MaxCount == 3

\* random.seed(seed): the state a seed puts the generator in
SeedState(seed) == seed

\* _randbelow(k) as draw number pos of the generator in state rng
Randbelow(rng, pos, k) == (rng \div (6 ^ pos)) % k

\* random.shuffle(x) from draw number pos on:
\* for i in reversed(range(1, len(x))): j = randbelow(i + 1); swap x[i], x[j]
RECURSIVE ShuffleFrom(_, _, _, _)
ShuffleFrom(x, i, rng, pos) ==
    IF i < 2 THEN x
    ELSE LET j == Randbelow(rng, pos, i) + 1
         IN  ShuffleFrom([x EXCEPT ![i] = x[j], ![j] = x[i]], i - 1, rng, pos + 1)
Shuffle(x, rng, pos) == ShuffleFrom(x, Len(x), rng, pos)
Draws(x) == IF Len(x) > 1 THEN Len(x) - 1 ELSE 0

\* x[:n] for n >= 0
Take(x, n) == SubSeq(x, 1, IF n < Len(x) THEN n ELSE Len(x))

\* fetch_tickers_from_api(sectors, limit) against the screener's inventory:
\* the first limit entries of the requested sectors, or an Exception when
\* the status is not 200.  [exc, list]
fetch_tickers_from_api(inventory, ok, sector_list, limit) ==
    IF ~ok THEN [exc |-> "Exception", list |-> <<>>]
    ELSE [exc |-> "none",
          list |-> Take(SelectSeq(inventory, LAMBDA e : e.sector \in SeqRange(sector_list)),
                        limit)]

\* the loop "for ticker_data in api_tickers: save_stock_data(symbol,
\* {'sector': ..., 'exchange': ...})": the dict has none of the fundamentals
\* and save_stock_data does not read its 'exchange'
RECURSIVE CacheNewTickers(_, _, _, _)
CacheNewTickers(st, t, api_tickers, i) ==
    IF i > Len(api_tickers) THEN st
    ELSE CacheNewTickers(
             save_stock_data(st, api_tickers[i].symbol,
                             [price |-> None, shares |-> None, fcf |-> None,
                              sector |-> Some(api_tickers[i].sector), eps |-> None], t),
             t, api_tickers, i + 1)

TickersOf(rows) == [i \in 1..Len(rows) |-> rows[i].ticker]
SymbolsOf(entries) == [i \in 1..Len(entries) |-> entries[i].symbol]

\* get_tickers from "if len(selected_tickers) < number_of_tickers" on
SelectFromApi(st, t, number_of_tickers, sector_list, exchange, rng, pos, inventory, ok, cached_tickers, selected_tickers) ==
    IF Len(selected_tickers) >= number_of_tickers
    THEN [exc |-> "none", result |-> Take(selected_tickers, number_of_tickers),
          store |-> st, cached |-> cached_tickers, api |-> <<>>]
    ELSE
      Bind(number_of_tickers - Len(selected_tickers), LAMBDA needed :
      Bind(fetch_tickers_from_api(inventory, ok, sector_list, needed * 2), LAMBDA fetch :
        IF fetch.exc # "none"
        THEN [exc |-> fetch.exc, result |-> <<>>, store |-> st,
              cached |-> cached_tickers, api |-> <<>>]
        ELSE
          Bind(SelectSeq(fetch.list, LAMBDA e : e.symbol \notin SeqRange(selected_tickers)),
               LAMBDA api_tickers :
          Bind(IF IsNone(exchange) THEN <<>>
               ELSE SelectSeq(api_tickers, LAMBDA e : e.exchange = Val(exchange)),
               LAMBDA api_priority :
          Bind(IF IsNone(exchange) THEN api_tickers
               ELSE SelectSeq(api_tickers, LAMBDA e : e.exchange # Val(exchange)),
               LAMBDA api_other :
          Bind(Take(SymbolsOf(Shuffle(api_priority, rng, pos)), needed),
               LAMBDA selected_api :
            [exc |-> "none",
             result |-> Take(selected_tickers \o selected_api
                               \o (IF needed - Len(selected_api) > 0
                                   THEN Take(SymbolsOf(Shuffle(api_other, rng,
                                                               pos + Draws(api_priority))),
                                             needed - Len(selected_api))
                                   ELSE <<>>),
                             number_of_tickers),
             store |-> CacheNewTickers(st, t, fetch.list, 1),
             cached |-> cached_tickers, api |-> fetch.list]))))))

\* get_tickers(number_of_tickers, sectors, exchange, seed) on store st at
\* time t, the generator in state rng, against the screener's inventory:
\* [exc, result, store, cached, api].  The rows query_data returns have the
\* columns of the table, which has no 'exchange': with an exchange given,
\* t['exchange'] raises KeyError on the first cached row.
get_tickers(st, t, number_of_tickers, sector_list, exchange, rng, inventory, ok) ==
    Bind(query_data(st, sector_list), LAMBDA cached_tickers :
      IF ~IsNone(exchange) /\ cached_tickers # <<>>
      THEN [exc |-> "KeyError", result |-> <<>>, store |-> st,
            cached |-> cached_tickers, api |-> <<>>]
      ELSE
        Bind(<<>>, LAMBDA priority_tickers :
        Bind(IF IsNone(exchange) THEN cached_tickers ELSE <<>>, LAMBDA other_tickers :
        Bind(Take(TickersOf(Shuffle(priority_tickers, rng, 0)), number_of_tickers),
             LAMBDA first :
        Bind(IF number_of_tickers - Len(first) > 0
             THEN first \o Take(TickersOf(Shuffle(other_tickers, rng,
                                                  Draws(priority_tickers))),
                                number_of_tickers - Len(first))
             ELSE first,
             LAMBDA selected_tickers :
          SelectFromApi(st, t, number_of_tickers, sector_list, exchange, rng,
                        Draws(priority_tickers) + Draws(other_tickers), inventory, ok,
                        cached_tickers, selected_tickers))))))

----------------------------------------------------------------------------
(* The state machine *)

EmptyStore == [s \in Listed |-> NoRow]

NoFetch ==
    [called |-> FALSE, tickers |-> <<>>, required_fields |-> {}, use_cache |-> TRUE,
     api |-> [s \in Symbols |-> Complete1], pre |-> EmptyStore, at |-> 0,
     exc |-> "none", result |-> <<>>, to_fetch |-> <<>>, requested |-> <<>>,
     log |-> <<>>]

\* what a fetch_data call leaves in the state
FetchRecord(tickers, required_fields, use_cache, api, r) ==
    [called |-> TRUE, tickers |-> tickers, required_fields |-> required_fields,
     use_cache |-> use_cache, api |-> api, pre |-> store, at |-> now,
     exc |-> r.exc, result |-> r.result, to_fetch |-> r.to_fetch,
     requested |-> r.requested, log |-> r.log]

\* the remote answers matter only for the tickers that are looked up
ApiFor(tickers, cases) ==
    {api \in [Symbols -> cases] :
        \A s \in Symbols \ SeqRange(tickers) : api[s] = CHOOSE c \in cases : TRUE}

\* the tickers fetch_data will look up remotely
ToFetch(st, t, tickers, required_fields, use_cache) ==
    IF use_cache
    THEN CacheLoop(st, t, tickers, required_fields, 1,
                   [result |-> <<>>, to_fetch |-> <<>>]).to_fetch
    ELSE tickers

Init ==
    /\ now = 0
    /\ store = EmptyStore
    /\ sectors = DefaultSectors
    /\ fetched = NoFetch
    /\ valued = None
    /\ analysed = None
    /\ config_file = DefaultSectors
    /\ called = None
    /\ random_seed = DefaultRandomSeed
    /\ seed_file = DefaultRandomSeed

\* The tool is single-threaded and synchronous: a call starts when the
\* previous one has returned and its outcome has been taken by the caller.
Idle == ~fetched.called /\ valued = None /\ analysed = None /\ called = None

\* the caller takes the outcome of the last call
Return ==
    /\ ~Idle
    /\ fetched' = NoFetch
    /\ valued' = None
    /\ analysed' = None
    /\ called' = None
    /\ UNCHANGED <<now, store, sectors, config_file, random_seed, seed_file>>

\* time passes between two calls
Tick ==
    /\ Idle
    /\ now < MaxTime
    /\ now' = now + 1
    /\ UNCHANGED <<store, sectors, fetched, valued, analysed, config_file, called, random_seed, seed_file>>

\* DataFetcher.fetch_data(tickers, required_fields, use_cache) with
\* required_fields drawn from fieldsets and the remote answers from cases
FetchDataWith(fieldsets, cases) ==
    /\ Idle
    /\ \E tickers \in Batches, required_fields \in fieldsets, use_cache \in BOOLEAN :
         \E api \in ApiFor(ToFetch(store, now, tickers, required_fields, use_cache), cases) :
           \E r \in {fetch_data(store, now, tickers, required_fields, use_cache, api)} :
               /\ store' = r.store
               /\ fetched' = FetchRecord(tickers, required_fields, use_cache, api, r)
               /\ UNCHANGED <<now, sectors, valued, analysed, config_file, called, random_seed, seed_file>>

FetchData == FetchDataWith(RequiredFieldSets, ApiCases)

\* the arguments of set_sector_params the model draws: none, valid values
\* (0.01 and 0.02 are discount rates at and below the terminal growth) and
\* one value out of range each
GrowthArgs == {None, Some(0), Some(150)}
PeArgs == {None, Some(20), Some(0)}
DiscountArgs == {None, Some(1), Some(2), Some(150)}

\* ConfigManager.set_sector_params(sector, growth_rate, pe_ratio, discount_rate);
\* save_config, its last statement, is reached when nothing was raised
SetSectorParams ==
    /\ Idle
    /\ \E sector \in SectorNames, growth_rate \in GrowthArgs, pe_ratio \in PeArgs,
          discount_rate \in DiscountArgs :
         \E r \in {set_sector_params(sectors, sector, growth_rate, pe_ratio, discount_rate)} :
             /\ sectors' = r.sectors
             /\ config_file' = IF r.exc = "none" THEN r.sectors ELSE config_file
             /\ called' = Some([op |-> "set_sector_params", sector |-> sector,
                                 growth_rate |-> growth_rate, pe_ratio |-> pe_ratio,
                                 discount_rate |-> discount_rate, exc |-> r.exc,
                                 pre |-> sectors, pre_file |-> config_file])
             /\ seed_file' = IF r.exc = "none" THEN random_seed ELSE seed_file
    /\ UNCHANGED <<now, store, fetched, valued, analysed, random_seed>>

\* the modes and values set_random_seed_mode is called with
ModeArgs == {"reuse", "generate", "specify", "invalid"}
SeedArgs == {None, Some(0), Some(1)}

\* ConfigManager.set_random_seed_mode(mode, value); save_config, its last
\* statement, writes the whole configuration when nothing was raised
SetRandomSeedMode ==
    /\ Idle
    /\ \E mode \in ModeArgs, value \in SeedArgs :
         \E r \in {set_random_seed_mode(random_seed, mode, value)} :
             /\ random_seed' = r.random_seed
             /\ seed_file' = IF r.exc = "none" THEN r.random_seed ELSE seed_file
             /\ config_file' = IF r.exc = "none" THEN sectors ELSE config_file
             /\ called' = Some([op |-> "set_random_seed_mode", mode |-> mode,
                                 value |-> value, exc |-> r.exc, pre |-> random_seed])
    /\ UNCHANGED <<now, store, sectors, fetched, valued, analysed>>

\* ConfigManager.get_random_seed(); randint draws the seed a generation uses
GetRandomSeed ==
    /\ Idle
    /\ \E drawn \in GeneratedSeeds :
         \E r \in {get_random_seed(random_seed, drawn)} :
             /\ random_seed' = r.random_seed
             /\ seed_file' = IF r.generated THEN r.random_seed ELSE seed_file
             /\ config_file' = IF r.generated THEN sectors ELSE config_file
             /\ called' = Some([op |-> "get_random_seed", exc |-> r.exc,
                                 seed |-> r.seed, generated |-> r.generated,
                                 pre |-> random_seed])
    /\ UNCHANGED <<now, store, sectors, fetched, valued, analysed>>

\* the records get_intrinsic_value is called with
StockInputs ==
    [price : {Some(100)},
     shares : {None, Some(0), Some(10)},
     fcf : {None, Some(0), Some(1000), Some(-1000)},
     eps : {None, Some(-1), Some(5)},
     sector : {None, Some("Technology"), Some("Crypto")},
     growth_rate : {None, Some(10)},
     fmp_dcf : {None, Some(160)}]

\* IntrinsicValueCalculator.get_intrinsic_value(stock_data)
GetIntrinsicValue ==
    /\ Idle
    /\ \E stock_data \in StockInputs :
         \E r \in {get_intrinsic_value(stock_data, sectors)} :
             valued' = Some([stock_data |-> stock_data, exc |-> r.exc,
                             dcf_per_share |-> r.dcf_per_share,
                             peg_intrinsic |-> r.peg_intrinsic,
                             fmp_dcf |-> r.fmp_dcf, value |-> r.value])
    /\ UNCHANGED <<now, store, sectors, fetched, analysed, config_file, called, random_seed, seed_file>>

\* the remote answers in the analyzer's specification
Growing == Answers(100, 10, "Technology", 1000, 5)
Losing == Answers(10, 10, "Technology", 1000, -1)
NoShares == Answers(100, 0, "Crypto", 1000, -1)
Burning == Answers(50, 10, "Crypto", -1000, 0)
ZeroPrice == Answers(0, 10, "Crypto", 1000, 5)
EpsMissing == [Growing EXCEPT !.income = Resp("list", NoObj)]
AnalysisCases == {Growing, Losing, NoShares, Burning, ZeroPrice, EpsMissing,
                  QuoteHttpError}

FilterParams == [exclude_negative_pe : BOOLEAN, max_pe : {None, Some(15), Some(30)}]
SectorPrefs == {None, Some(<<>>), Some(<<"Technology">>), Some(<<"Crypto", "Technology">>)}

\* StockAnalyzer.analyze_stocks(tickers, filter_params, sector_prefs)
AnalyzeStocks ==
    /\ Idle
    /\ \E tickers \in Batches, filter_params \in FilterParams, sector_prefs \in SectorPrefs :
         \E api \in ApiFor(ToFetch(store, now, tickers, DefaultRequired, TRUE), AnalysisCases) :
           \E r \in {analyze_stocks(store, now, tickers, filter_params, sector_prefs,
                                     api, sectors)} :
               /\ store' = r.store
               /\ analysed' = Some([tickers |-> tickers, filter_params |-> filter_params,
                                    sector_prefs |-> sector_prefs, exc |-> r.exc,
                                    pre |-> store, fetched |-> r.fetched,
                                    stocks |-> r.stocks,
                                    out |-> r.out])
    /\ UNCHANGED <<now, sectors, fetched, valued, config_file, called, random_seed, seed_file>>

\* the screener's inventories, in the order the screener lists them
Entry(symbol, sector, exchange) ==
    [symbol |-> symbol, sector |-> sector, exchange |-> exchange]
AllTechnology ==
    <<Entry("AAPL", "Technology", "NASDAQ"), Entry("MSFT", "Technology", "NASDAQ"),
      Entry("ZDGE", "Technology", "AMEX")>>
TwoSectors ==
    <<Entry("MSFT", "Technology", "NASDAQ"), Entry("ZDGE", "Crypto", "AMEX")>>
Inventories == {AllTechnology, TwoSectors}

\* the arguments of get_tickers, and the states of a generator nobody seeded
SectorLists == {<<"Technology">>, <<"Crypto", "Technology">>}
Exchanges == {None, Some("AMEX")}
Seeds == {None, Some(1), Some(2)}
RngStates == 0..5

\* TickerSelector.get_tickers(number_of_tickers, sectors, exchange, seed)
\* with the arguments and the screener's inventory drawn from the sets given
GetTickersWith(sector_lists, exchanges, seeds, inventories) ==
    /\ Idle
    /\ \E number_of_tickers \in 0..MaxCount, sector_list \in sector_lists,
          exchange \in exchanges, seed \in seeds, inventory \in inventories,
          ok \in BOOLEAN :
         \E rng \in IF IsNone(seed) THEN RngStates ELSE {SeedState(Val(seed))} :
           \E r \in {get_tickers(store, now, number_of_tickers, sector_list, exchange,
                                 rng, inventory, ok)} :
               /\ store' = r.store
               /\ called' = Some([op |-> "get_tickers",
                                  number_of_tickers |-> number_of_tickers,
                                  sectors |-> sector_list, exchange |-> exchange,
                                  seed |-> seed, rng |-> rng, inventory |-> inventory,
                                  ok |-> ok, pre |-> store, exc |-> r.exc,
                                  result |-> r.result, cached |-> r.cached,
                                  api |-> r.api])
    /\ UNCHANGED <<now, sectors, fetched, valued, analysed, config_file, random_seed, seed_file>>

GetTickers == GetTickersWith(SectorLists, Exchanges, Seeds, Inventories)

\* the fundamentals a caller saves directly
DirectData ==
    {[price |-> Some(10), shares |-> Some(10), fcf |-> Some(1000),
      sector |-> Some("Technology"), eps |-> Some(5)]}

\* DatabaseManager.save_stock_data(ticker, data)
SaveStockData ==
    /\ Idle
    /\ \E ticker \in Listed, data \in DirectData :
         /\ store' = save_stock_data(store, ticker, data, now)
         /\ called' = Some([op |-> "save_stock_data", ticker |-> ticker,
                             data |-> data, pre |-> store])
    /\ UNCHANGED <<now, sectors, fetched, valued, analysed, config_file, random_seed, seed_file>>

\* the derived values a caller saves
DerivedValues == {Some(125)}
DerivedScores == {Some(12)}

\* DatabaseManager.save_intrinsic_value(ticker, value)
SaveIntrinsicValue ==
    /\ Idle
    /\ \E ticker \in Listed, value \in DerivedValues :
         /\ store' = save_intrinsic_value(store, ticker, value, now)
         /\ called' = Some([op |-> "save_intrinsic_value", ticker |-> ticker,
                             value |-> value, pre |-> store])
    /\ UNCHANGED <<now, sectors, fetched, valued, analysed, config_file, random_seed, seed_file>>

\* DatabaseManager.save_score(ticker, score)
SaveScore ==
    /\ Idle
    /\ \E ticker \in Listed, score \in DerivedScores :
         /\ store' = save_score(store, ticker, score, now)
         /\ called' = Some([op |-> "save_score", ticker |-> ticker,
                             score |-> score, pre |-> store])
    /\ UNCHANGED <<now, sectors, fetched, valued, analysed, config_file, random_seed, seed_file>>

\* DatabaseManager.clear_outdated_data(days)
ClearOutdatedData ==
    /\ Idle
    /\ \E days \in 0..MaxTime :
         /\ store' = clear_outdated_data(store, now, days)
         /\ called' = Some([op |-> "clear_outdated_data", days |-> days, pre |-> store])
    /\ UNCHANGED <<now, sectors, fetched, valued, analysed, config_file, random_seed, seed_file>>

Next == Tick \/ FetchData \/ Return

\* the cached fetcher over the store
Spec == Init /\ [][Next]_vars

NextValue == SetSectorParams \/ GetIntrinsicValue \/ Return

\* the valuation engine over the sector defaults
SpecValue == Init /\ [][NextValue]_vars

NextAnalyze == AnalyzeStocks \/ Return

\* the analyzer over the fetcher and the valuation engine
SpecAnalyze == Init /\ [][NextAnalyze]_vars

NextSelect == SaveStockData \/ GetTickers \/ Return

\* the ticker selector over the store
SpecSelect == Init /\ [][NextSelect]_vars

NextSeed == SetRandomSeedMode \/ GetRandomSeed \/ Return

\* the random seed policy of the configuration
SpecSeed == Init /\ [][NextSeed]_vars

\* fetch_data and get_tickers as the store sees them: a symbol is answered
\* completely or not at all, and the selector lists one sector
FetchStored == FetchDataWith({DefaultRequired}, {Complete1, QuoteHttpError})
SelectStored == GetTickersWith({<<"Technology">>}, {None}, {Some(1)}, {AllTechnology})

NextStore ==
    \/ Tick
    \/ SaveStockData
    \/ SaveIntrinsicValue
    \/ SaveScore
    \/ FetchStored
    \/ SelectStored
    \/ ClearOutdatedData
    \/ Return

\* every operation that writes the store
SpecStore == Init /\ [][NextStore]_vars

----------------------------------------------------------------------------
(* Properties of the cached fetcher, stated on the outcome of the last     *)
(* fetch_data call: fetched.pre is the store when the call started and     *)
(* store the store when it returned.                                       *)

Requested(s) == s \in SeqRange(fetched.requested)
Queued(s) == s \in SeqRange(fetched.to_fetch)
Returned(s) == fetched.exc = "none" /\ DictHas(fetched.result, s)
Age(row) == fetched.at - row.timestamp

\* the stored record of s was complete and fresh when the call started
FreshComplete(s) ==
    /\ fetched.pre[s] # NoRow
    /\ \A f \in fetched.required_fields : Val(fetched.pre[s])[f] # None
    /\ Age(Val(fetched.pre[s])) < cache_duration_days

\* what the remote source answered for s, as fetch_from_api reads it
Answered(s) == FetchTicker(fetched.api[s])
AnsweredData(s) == Answered(s).exc = "none"
LacksRequired(s) ==
    /\ AnsweredData(s)
    /\ \E f \in fetched.required_fields : Val(Answered(s).data)[f] = None

\* C1: in a fetch_data call with use_cache, a requested symbol whose stored
\* record exists, has every required field and is younger than the TTL gets
\* no remote lookup, and the record returned for it holds the stored price,
\* shares, fcf, sector and eps.
C1_FreshCacheServed ==
    (fetched.called /\ fetched.use_cache) =>
        \A s \in SeqRange(fetched.tickers) :
            FreshComplete(s) =>
                /\ ~Requested(s)
                /\ ~Queued(s)
                /\ fetched.exc = "none" =>
                      /\ DictHas(fetched.result, s)
                      /\ DictGet(fetched.result, s) = CachedRecord(Val(fetched.pre[s]))

\* a call that served one symbol from the cache and fetched another remotely
C1_Witness ==
    /\ fetched.called /\ fetched.use_cache /\ fetched.exc = "none"
    /\ \E s \in SeqRange(fetched.tickers) : FreshComplete(s) /\ Returned(s)
    /\ \E s \in SeqRange(fetched.tickers) : Requested(s) /\ Returned(s)

\* C2: a cached record whose age equals the TTL is expired: the symbol is
\* queued for the remote fetch; only records younger than the TTL are served
\* from the cache.
C2_BoundaryExpired ==
    (fetched.called /\ fetched.use_cache) =>
        \A s \in SeqRange(fetched.tickers) :
            /\ (fetched.pre[s] # NoRow /\ Age(Val(fetched.pre[s])) = cache_duration_days)
                   => Queued(s) /\ (fetched.exc = "none" => Requested(s))
            /\ ~Queued(s)
                   => fetched.pre[s] # NoRow /\ Age(Val(fetched.pre[s])) < cache_duration_days

\* a complete record exactly one TTL old was looked up again
C2_Witness ==
    /\ fetched.called /\ fetched.use_cache
    /\ \E s \in SeqRange(fetched.tickers) :
          /\ fetched.pre[s] # NoRow
          /\ \A f \in fetched.required_fields : Val(fetched.pre[s])[f] # None
          /\ Age(Val(fetched.pre[s])) = cache_duration_days
          /\ Requested(s)

\* C3: a failing remote lookup for one symbol raises nothing to the caller of
\* fetch_data, and every other symbol of the batch that the remote source
\* answers completely is still fetched, persisted and returned.
C3_FailureIsolated ==
    fetched.called =>
        /\ fetched.exc = "none"
        /\ \A s \in SeqRange(fetched.to_fetch) :
              (AnsweredData(s) /\ ~LacksRequired(s)) =>
                  /\ Requested(s)
                  /\ Returned(s)
                  /\ store[s] # NoRow
                  /\ CachedRecord(Val(store[s])) = Val(Answered(s).data)

\* C4: a remotely fetched symbol that lacks a required field is not in the
\* result and the store's entry for it is what it was before the call.
C4_InvalidNotPersisted ==
    fetched.called =>
        \A s \in SeqRange(fetched.to_fetch) :
            LacksRequired(s) => ~Returned(s) /\ store[s] = fetched.pre[s]

\* an incomplete answer left an older record of the symbol in place
C4_Witness ==
    /\ fetched.called /\ fetched.exc = "none"
    /\ \E s \in SeqRange(fetched.to_fetch) :
          LacksRequired(s) /\ Requested(s) /\ fetched.pre[s] # NoRow

\* C5: when fetch_data returns, every symbol it returns from a remote fetch
\* has its stored record (one per symbol) equal to the returned values, and
\* the record was written before the symbol was added to the result.
C5_PersistedBeforeReturned ==
    (fetched.called /\ fetched.exc = "none") =>
        \A s \in SeqRange(fetched.to_fetch) :
            DictHas(fetched.result, s) =>
                /\ store[s] # NoRow
                /\ CachedRecord(Val(store[s])) = DictGet(fetched.result, s)
                /\ \A j \in 1..Len(fetched.log) :
                      fetched.log[j] = <<"result", s>> =>
                          \E i \in 1..(j - 1) : fetched.log[i] = <<"save", s>>
                /\ \E j \in 1..Len(fetched.log) : fetched.log[j] = <<"result", s>>

\* a remote fetch replaced an older record and returned the new values
C5_Witness ==
    /\ fetched.called /\ fetched.exc = "none"
    /\ \E s \in SeqRange(fetched.to_fetch) :
          /\ DictHas(fetched.result, s)
          /\ fetched.pre[s] # NoRow
          /\ CachedRecord(Val(fetched.pre[s])) # DictGet(fetched.result, s)

\* a lookup answered with a list whose first item has no such key
KeyMissing(resp, key) == resp.kind = "list" /\ key \notin DOMAIN resp.obj
LacksExpectedKey(r) ==
    \/ KeyMissing(r.quote, "price")
    \/ KeyMissing(r.profile, "sharesOutstanding")
    \/ KeyMissing(r.profile, "sector")
    \/ KeyMissing(r.cashflow, "freeCashFlow")
    \/ KeyMissing(r.income, "eps")

\* C18: a symbol for which one of the four remote lookups answers without
\* its expected key is not in fetch_data's result, whatever required_fields.
C18_MissingKeyExcluded ==
    fetched.called =>
        \A s \in SeqRange(fetched.to_fetch) :
            LacksExpectedKey(fetched.api[s]) => ~Returned(s)

\* every requested symbol of the call was served from the cache
AllFromCache ==
    /\ fetched.called /\ fetched.use_cache
    /\ fetched.tickers # <<>>
    /\ fetched.to_fetch = <<>>

FromCache(s) ==
    /\ fetched.use_cache
    /\ FreshComplete(s)
    /\ DictGet(fetched.result, s) = CachedRecord(Val(fetched.pre[s]))

\* the record returned for s is what the remote source answered in this call
FromRemote(s) ==
    /\ Queued(s) /\ Requested(s)
    /\ AnsweredData(s)
    /\ DictGet(fetched.result, s) = Val(Answered(s).data)

\* the stored record of s could not be served when the call started
Unservable(s) == fetched.pre[s] # NoRow /\ ~(fetched.use_cache /\ FreshComplete(s))

\* C28: every record fetch_data returns is a fresh complete cache hit or the
\* output of a remote fetch of the same call; a symbol whose record is
\* expired or incomplete and whose refetch fails is not in the result.
C28_NoStaleValuesReturned ==
    (fetched.called /\ fetched.exc = "none") =>
        /\ \A s \in DictKeys(fetched.result) : FromCache(s) \/ FromRemote(s)
        /\ \A s \in SeqRange(fetched.tickers) :
              (Unservable(s) /\ ~AnsweredData(s)) => ~Returned(s)

\* an expired record was refetched without success and left out, while
\* another symbol of the batch was returned
C28_Witness ==
    /\ fetched.called /\ fetched.exc = "none" /\ fetched.use_cache
    /\ \E s \in SeqRange(fetched.tickers) :
          /\ fetched.pre[s] # NoRow
          /\ Age(Val(fetched.pre[s])) >= cache_duration_days
          /\ Requested(s) /\ ~AnsweredData(s) /\ ~Returned(s)
    /\ fetched.result # <<>>

----------------------------------------------------------------------------
(* Properties of the valuation engine, stated on the outcome of the last   *)
(* get_intrinsic_value call.  sectors is what it was during the call: it   *)
(* changes only between calls.                                             *)

ValuedInput == Val(valued).stock_data
SectorDefaultsOf(stock_data) ==
    IF IsNone(stock_data.sector) THEN NoParams
    ELSE get_sector_params(sectors, Val(stock_data.sector))
DiscountOf(stock_data) == OrElse(SectorDefaultsOf(stock_data).discount_rate, FallbackDiscount)
GrowthOf(stock_data) ==
    OrElse(stock_data.growth_rate,
           OrElse(SectorDefaultsOf(stock_data).growth_rate, FallbackGrowth))

\* the sub-estimates that are there, their number and their sum
Available(subs) == {i \in 1..Len(subs) : subs[i] # None}
RECURSIVE SumOver(_, _)
SumOver(subs, indices) ==
    IF indices = {} THEN 0
    ELSE LET i == CHOOSE j \in indices : TRUE
         IN  Val(subs[i]) + SumOver(subs, indices \ {i})
MeanOf(subs) ==
    IF Available(subs) = {} THEN None
    ELSE Some(SumOver(subs, Available(subs)) \div Cardinality(Available(subs)))

\* C6: when the sector's discount rate is at or below the terminal growth
\* rate, get_intrinsic_value does not raise, averages no DCF value, and
\* returns the mean of the other sub-estimates or null.
C6_LowDiscountDcfExcluded ==
    (/\ valued # None
     /\ ValuedInput.shares # None
     /\ DiscountOf(ValuedInput) <= terminal_growth)
        => /\ Val(valued).exc = "none"
           /\ Val(valued).dcf_per_share = None
           /\ Val(valued).value = MeanOf(<<Val(valued).peg_intrinsic, Val(valued).fmp_dcf>>)

----------------------------------------------------------------------------
(* Properties of the analyzer, stated on the outcome of the last           *)
(* analyze_stocks call: analysed.stocks is stock_list after the valuation  *)
(* loop and analysed.out what the call returned.                           *)

Analysis == Val(analysed)
Returns == analysed # None /\ Analysis.exc = "none"

\* every row of every list the call returned
OutRows ==
    SeqRange(Analysis.out.rows)
        \cup UNION {SeqRange(Analysis.out.groups[k].rows) :
                        k \in 1..Len(Analysis.out.groups)}
InOutput(ticker) == \E row \in OutRows : row.ticker = ticker

Stocks == SeqRange(Analysis.stocks)
Unvaluable(stock) == stock.intrinsic_value = None \/ Val(stock.intrinsic_value) <= 0
NonPositiveEps(stock) == Val(stock.eps) <= 0

\* the stock's sector is one the call returns a list for
SectorKept(stock) ==
    Analysis.out.grouped =>
        \E k \in 1..Len(Analysis.out.groups) :
            stock.sector = Some(Analysis.out.groups[k].sector)

\* C8: whatever the batch, the filters and the sector preference, no ticker
\* whose intrinsic value is null or <= 0 is in a list analyze_stocks returns.
C8_UnvaluableNeverListed ==
    Returns =>
        /\ \A stock \in Stocks : Unvaluable(stock) => ~InOutput(stock.ticker)
        /\ \A row \in OutRows : row.intrinsic_value # None /\ Val(row.intrinsic_value) > 0

\* a call that listed one ticker and dropped an unvaluable one
C8_Witness ==
    /\ Returns
    /\ \E stock \in Stocks : Unvaluable(stock) /\ SectorKept(stock)
    /\ OutRows # {}

\* C9 as stated: with max_pe set, no ticker with EPS <= 0 is listed.
C9_SentinelDroppedByMaxPe ==
    (Returns /\ Analysis.filter_params.max_pe # None) =>
        \A stock \in Stocks : NonPositiveEps(stock) => ~InOutput(stock.ticker)

\* C9: a ticker with EPS <= 0 has the negative-infinity sentinel for P/E and
\* no max_pe bound drops it: if it is valuable, not dropped by
\* exclude_negative_pe and of a listed sector, it is listed.
C9_SentinelPassesMaxPe ==
    (Returns /\ Analysis.filter_params.max_pe # None) =>
        \A stock \in Stocks :
            NonPositiveEps(stock) =>
                /\ stock.pe_ratio = NegInf
                /\ (/\ ~Unvaluable(stock)
                    /\ SectorKept(stock)
                    /\ (Analysis.filter_params.exclude_negative_pe
                            => stock.ticker \in AMEX_TICKERS))
                       => InOutput(stock.ticker)

\* a ticker with EPS <= 0 listed under the lowest max_pe bound
C9_Witness ==
    /\ Returns
    /\ Analysis.filter_params.max_pe = Some(15)
    /\ \E stock \in Stocks : NonPositiveEps(stock) /\ InOutput(stock.ticker)

\* C10: a valuable ticker with EPS <= 0, of a listed sector, is listed under
\* exclude_negative_pe if and only if its symbol is in AMEX_TICKERS, and is
\* always listed without the flag.
C10_AllowListExempts ==
    Returns =>
        \A stock \in Stocks :
            (NonPositiveEps(stock) /\ ~Unvaluable(stock) /\ SectorKept(stock)) =>
                IF Analysis.filter_params.exclude_negative_pe
                THEN InOutput(stock.ticker) <=> stock.ticker \in AMEX_TICKERS
                ELSE InOutput(stock.ticker)

\* under the flag, of two valuable tickers with EPS <= 0 the allow-listed
\* one is listed and the other is not
C10_Witness ==
    /\ Returns
    /\ Analysis.filter_params.exclude_negative_pe
    /\ \E a, b \in Stocks :
          /\ NonPositiveEps(a) /\ ~Unvaluable(a) /\ SectorKept(a)
          /\ NonPositiveEps(b) /\ ~Unvaluable(b) /\ SectorKept(b)
          /\ a.ticker \in AMEX_TICKERS /\ InOutput(a.ticker)
          /\ b.ticker \notin AMEX_TICKERS /\ ~InOutput(b.ticker)

\* every list the call returned
OutLists ==
    {Analysis.out.rows}
        \cup {Analysis.out.groups[k].rows : k \in 1..Len(Analysis.out.groups)}

\* the place of a ticker in stock_list, which is in the order of the dict
\* fetch_data returned, and its first place in the tickers argument
FetchPlace(ticker) ==
    CHOOSE i \in 1..Len(Analysis.stocks) : Analysis.stocks[i].ticker = ticker
RequestPlace(ticker) ==
    CHOOSE i \in 1..Len(Analysis.tickers) :
        Analysis.tickers[i] = ticker /\ \A j \in 1..(i - 1) : Analysis.tickers[j] # ticker

\* the ticker was served from the cache by the call
WasCacheHit(ticker) ==
    /\ Analysis.pre[ticker] # NoRow
    /\ \A f \in DefaultRequired : Val(Analysis.pre[ticker])[f] # None
    /\ now - Val(Analysis.pre[ticker]).timestamp < cache_duration_days

\* C11: every list analyze_stocks returns is in non-increasing order of
\* score, rows of equal score are in the order fetch_data returned them, and
\* that order is the cache hits in request order followed by the remotely
\* fetched symbols in request order.
C11_StableDescending ==
    Returns =>
        /\ \A rows \in OutLists :
              \A i, j \in 1..Len(rows) :
                  i < j =>
                      /\ rows[i].score >= rows[j].score
                      /\ rows[i].score = rows[j].score
                            => FetchPlace(rows[i].ticker) < FetchPlace(rows[j].ticker)
        /\ \A i, j \in 1..Len(Analysis.stocks) :
              i < j =>
                  LET a == Analysis.stocks[i].ticker
                      b == Analysis.stocks[j].ticker
                  IN  /\ WasCacheHit(b) => WasCacheHit(a)
                      /\ (WasCacheHit(a) <=> WasCacheHit(b))
                            => RequestPlace(a) < RequestPlace(b)

\* two rows of equal score listed against the request order: the second
\* requested was a cache hit, the first was fetched remotely
C11_Witness ==
    /\ Returns
    /\ \E rows \in OutLists :
          /\ Len(rows) = 2
          /\ rows[1].score = rows[2].score
          /\ RequestPlace(rows[1].ticker) > RequestPlace(rows[2].ticker)
          /\ WasCacheHit(rows[1].ticker) /\ ~WasCacheHit(rows[2].ticker)

\* the call was given a collection of preferred sectors
PrefsGiven == Analysis.sector_prefs # None
RequestedSectors == SeqRange(Val(Analysis.sector_prefs))

\* C12: whenever a collection of preferred sectors is given, the empty one
\* included, analyze_stocks returns a mapping whose keys are exactly the
\* requested sectors; each list holds rows of its own sector only and a
\* ticker is in at most one list.
C12_MappingForAnyPrefs ==
    (Returns /\ PrefsGiven) =>
        LET groups == Analysis.out.groups
        IN  /\ Analysis.out.grouped
            /\ Analysis.out.rows = <<>>
            /\ {groups[k].sector : k \in 1..Len(groups)} = RequestedSectors
            /\ \A k, l \in 1..Len(groups) : groups[k].sector = groups[l].sector => k = l
            /\ \A k \in 1..Len(groups) :
                  \A row \in SeqRange(groups[k].rows) :
                      /\ row.sector = Some(groups[k].sector)
                      /\ \A l \in 1..Len(groups) :
                            (\E other \in SeqRange(groups[l].rows) : other.ticker = row.ticker)
                                => l = k

\* C17: every row analyze_stocks returns has score = intrinsic_value / price
\* when its price > 0 and score = 0 when its price <= 0 (the score is in
\* percent, rounded down).
C17_ScoreIsValueOverPrice ==
    Returns =>
        \A row \in OutRows :
            IF Val(row.price) > 0
            THEN /\ row.score * Val(row.price) <= Val(row.intrinsic_value) * 100
                 /\ Val(row.intrinsic_value) * 100 < (row.score + 1) * Val(row.price)
            ELSE row.score = 0

\* a call that listed a row priced at zero and a row with a positive price
C17_Witness ==
    /\ Returns
    /\ \E row \in OutRows : Val(row.price) = 0 /\ row.score = 0
    /\ \E row \in OutRows : Val(row.price) > 0 /\ row.score > 0

----------------------------------------------------------------------------
(* Properties of the configuration, stated on the outcome of the last      *)
(* set_sector_params call.                                                 *)

Configured == called # None /\ Val(called).op = "set_sector_params"
OutOfRange(rate) == rate # None /\ (Val(rate) < 0 \/ Val(rate) > 100)
InvalidParams ==
    \/ OutOfRange(Val(called).growth_rate)
    \/ Val(called).pe_ratio # None /\ Val(Val(called).pe_ratio) <= 0
    \/ OutOfRange(Val(called).discount_rate)

\* C13: set_sector_params with a growth_rate or discount_rate outside [0,1]
\* or a pe_ratio <= 0 raises and leaves the sector defaults, in memory and
\* in the file, as they were before the call.
C13_RejectedLeavesConfig ==
    (Configured /\ InvalidParams) =>
        /\ Val(called).exc = "ValueError"
        /\ sectors = Val(called).pre
        /\ config_file = Val(called).pre_file

----------------------------------------------------------------------------
(* Properties of the ticker selector, stated on the outcome of the last    *)
(* get_tickers call: Selection.pre is the store when the call started and  *)
(* store the store it left.                                                *)

Selection == Val(called)
Selected == called # None /\ Selection.op = "get_tickers"
SelectionReturns == Selected /\ Selection.exc = "none"

\* C14: under a fixed seed get_tickers is reproducible: the same call made
\* again on the same selector and store, against the same inventory,
\* returns the same ordered list.  Stated for calls without an exchange.
C14_ReproducibleUnderSeed ==
    (SelectionReturns /\ Selection.seed # None /\ Selection.exchange = None) =>
        LET again == get_tickers(store, now, Selection.number_of_tickers,
                                 Selection.sectors, Selection.exchange,
                                 SeedState(Val(Selection.seed)), Selection.inventory,
                                 Selection.ok)
        IN  again.exc = "none" /\ again.result = Selection.result

\* C15: get_tickers writes only symbols that were not stored before the
\* call, and of those only the sector: every record stored before keeps its
\* price, shares, fcf, eps and timestamp.
C15_SelectorKeepsFundamentals ==
    Selected =>
        \A s \in Listed :
            IF Selection.pre[s] # NoRow
            THEN /\ store[s] # NoRow
                 /\ \A f \in {"price", "shares", "fcf", "eps", "timestamp"} :
                        Val(store[s])[f] = Val(Selection.pre[s])[f]
            ELSE store[s] # NoRow =>
                     \A f \in {"price", "shares", "fcf", "eps"} : Val(store[s])[f] = None

\* the distinct symbols of the requested sectors in the cache before the
\* call and in the screener's inventory
Universe ==
    {s \in Listed : /\ Selection.pre[s] # NoRow
                    /\ Val(Selection.pre[s]).sector # None
                    /\ Val(Val(Selection.pre[s]).sector) \in SeqRange(Selection.sectors)}
        \cup {e.symbol : e \in {x \in SeqRange(Selection.inventory) :
                                    x.sector \in SeqRange(Selection.sectors)}}

\* C19: get_tickers returns at most count symbols, and fewer than count only
\* when the cache and the screener together hold fewer than count distinct
\* symbols of the requested sectors.
C19_FewerOnlyWhenExhausted ==
    SelectionReturns =>
        /\ Len(Selection.result) <= Selection.number_of_tickers
        /\ Len(Selection.result) < Selection.number_of_tickers
              => Cardinality(Universe) < Selection.number_of_tickers

\* the symbol is listed on the exchange the call designates
OnExchange(symbol) ==
    \E e \in SeqRange(Selection.inventory) :
        e.symbol = symbol /\ e.exchange = Val(Selection.exchange)

\* C20: with an exchange given, get_tickers returns a list in which every
\* symbol on that exchange, from the cache or from the screener, precedes
\* every symbol that is not on it.
C20_ExchangeFirst ==
    (Selected /\ Selection.exchange # None /\ Selection.ok) =>
        /\ Selection.exc = "none"
        /\ \A i, j \in 1..Len(Selection.result) :
              (i < j /\ OnExchange(Selection.result[j])) => OnExchange(Selection.result[i])

-----------------------------------------------------------------------\* the tickers fetch_data returned to the last analyze_stocks call, and
\* those it returned without an EPS
FetchedTickers == DictKeys(Analysis.fetched)
EpsAbsent == {t \in FetchedTickers : IsNone(DictGet(Analysis.fetched, t).eps)}

\* C23: analyze_stocks does not raise on a fetched ticker whose EPS is
\* null: that ticker gets the negative-infinity P/E sentinel and every
\* ticker of the batch that was fetched is analysed.
C23_AbsentEpsHandled ==
    (analysed # None /\ EpsAbsent # {}) =>
        /\ Analysis.exc = "none"
        /\ \A t \in FetchedTickers : \E stock \in Stocks : stock.ticker = t
        /\ \A stock \in Stocks : stock.ticker \in EpsAbsent => stock.pe_ratio = NegInf

-----
(* Properties of the store over all the operations that write it *)

Stored(st) == {s \in Listed : st[s] # NoRow}
Swept == called # None /\ Val(called).op = "clear_outdated_data"

\* C16: whatever the sequence of save_stock_data, save_intrinsic_value,
\* save_score, fetch_data, get_tickers and clear_outdated_data, a stored
\* symbol leaves the store only in a clear_outdated_data step.
C16_OnlySweepDeletes ==
    [][(Stored(store) \ Stored(store') # {})
          => (called = None /\ called' # None /\ Val(called').op = "clear_outdated_data")]_vars

\* a sweep removed a record that a save had written and an update had
\* touched, and kept a younger one
C16_Witness ==
    /\ Swept
    /\ \E s \in Listed :
          /\ Val(called).pre[s] # NoRow /\ store[s] = NoRow
          /\ Val(Val(called).pre[s]).score # None
    /\ Stored(store) # {}

\* the age, at the time of the last call, of a row the call found
AgeAtCall(row) == now - row.timestamp

\* C22: clear_outdated_data(days) deletes exactly the records older than
\* days; a record exactly days old and every younger one stay as they were.
C22_SweepDeletesExactlyOlder ==
    Swept =>
        \A s \in Listed :
            IF Val(called).pre[s] # NoRow
                 /\ AgeAtCall(Val(Val(called).pre[s])) > Val(called).days
            THEN store[s] = NoRow
            ELSE store[s] = Val(called).pre[s]

\* a sweep deleted an older record and kept one that was exactly days old
C22_Witness ==
    /\ Swept
    /\ \E s \in Listed : Val(called).pre[s] # NoRow /\ store[s] = NoRow
    /\ \E s \in Listed :
          /\ store[s] # NoRow
          /\ AgeAtCall(Val(store[s])) = Val(called).days

DerivedSaved ==
    called # None /\ Val(called).op \in {"save_intrinsic_value", "save_score"}

Fundamentals == {"price", "shares", "fcf", "sector", "eps"}

\* C24: save_intrinsic_value and save_score change, on the record of their
\* ticker, the derived field they name and none of price, shares, fcf,
\* sector, eps and the other derived field; they touch no other record and
\* create none.
C24_DerivedSavePartial ==
    DerivedSaved =>
        \A s \in Listed :
            IF Val(called).pre[s] = NoRow THEN store[s] = NoRow
            ELSE IF s # Val(called).ticker THEN store[s] = Val(called).pre[s]
            ELSE /\ store[s] # NoRow
                 /\ \A f \in Fundamentals : Val(store[s])[f] = Val(Val(called).pre[s])[f]
                 /\ IF Val(called).op = "save_intrinsic_value"
                    THEN /\ Val(store[s]).intrinsic_value = Val(called).value
                         /\ Val(store[s]).score = Val(Val(called).pre[s]).score
                    ELSE /\ Val(store[s]).score = Val(called).score
                         /\ Val(store[s]).intrinsic_value
                                = Val(Val(called).pre[s]).intrinsic_value

\* a score was saved on a record that had an intrinsic value, while another
\* symbol was not stored
C24_Witness ==
    /\ DerivedSaved
    /\ Val(called).op = "save_score"
    /\ Val(called).pre[Val(called).ticker] # NoRow
    /\ Val(Val(called).pre[Val(called).ticker]).intrinsic_value # None
    /\ Val(store[Val(called).ticker]).score = Val(called).score
    /\ \E s \in Listed : store[s] = NoRow

\* fetch_data with the default required fields would serve s from the store
Servable(st, s, t) == CacheHit(get_cached_data(st, s), DefaultRequired, t)

\* C25: saving an intrinsic value or a score does not make fetch_data serve
\* from cache a record it would have refetched: freshness follows the last
\* save of the fundamentals only.
C25_DerivedSaveKeepsStaleness ==
    [][(called = None /\ called' # None
          /\ Val(called').op \in {"save_intrinsic_value", "save_score"})
         => \A s \in Listed : Servable(store', s, now') => Servable(store, s, now)]_vars

SavedCall == called # None /\ Val(called).op = "save_stock_data"
Refreshed(s) == fetched.called /\ \E i \in 1..Len(fetched.log) : fetched.log[i] = <<"save", s>>
DerivedNull(row) == row # NoRow /\ Val(row).intrinsic_value = None /\ Val(row).score = None

\* C26: after save_stock_data(t, data), and so after every remote refresh
\* of t by fetch_data, the stored intrinsic_value and score of t are null.
C26_SaveResetsDerived ==
    /\ SavedCall => DerivedNull(store[Val(called).ticker])
    /\ \A s \in Symbols : Refreshed(s) => DerivedNull(store[s])

\* fetch_data refreshed a record that had an intrinsic value and a score
C26_Witness ==
    \E s \in Symbols :
        /\ Refreshed(s)
        /\ fetched.pre[s] # NoRow
        /\ Val(fetched.pre[s]).intrinsic_value # None
        /\ Val(fetched.pre[s]).score # None

----------------------------------------------------------------------------
(* Properties of the random seed policy, stated on the last call of        *)
(* get_random_seed or set_random_seed_mode.                                 *)

SeedCall == called # None /\ Val(called).op = "get_random_seed"

\* the call was made in reuse mode after generate mode had produced a seed
ReuseAfterGenerate ==
    /\ SeedCall
    /\ Val(called).pre.mode = "reuse"
    /\ ~IsNone(Val(called).pre.last_used)

\* C21: in reuse mode get_random_seed returns last_used, the seed generate
\* mode last produced, and generates no new seed, for every seed from 0 up.
C21_ReuseReturnsLastUsed ==
    ReuseAfterGenerate =>
        /\ Val(called).exc = "none"
        /\ Val(called).seed = Val(called).pre.last_used
        /\ ~Val(called).generated
        /\ random_seed = Val(called).pre

\* C29: after any sequence of set_random_seed_mode calls from the default
\* configuration, mode "specify" implies a seed value is set, and
\* get_random_seed does not raise.
C29_SpecifyHasValue ==
    /\ random_seed.mode = "specify" => ~IsNone(random_seed.value)
    /\ SeedCall => Val(called).exc = "none"


====
